---- MODULE Spec2Model ----
(***************************************************************************)
(* The log-structured key-value engine KvStore (src/src/engines/kvs.rs)    *)
(* with its log reader, iterator and writer (src/src/logs.rs), the server  *)
(* in front of it (src/src/server.rs) and the command-line tools.          *)
(*                                                                         *)
(* A segment file is the sequence of the Command records appended to it;   *)
(* byte offsets and lengths are computed from the serde_json encoding      *)
(* {"Set":{"key":"..","value":".."}} / {"Remove":{"key":".."}} of each     *)
(* record.  A value is ch repeated n times, so that a single record can be *)
(* larger than COMPACTION_THRESHOLD as in the large-value scenario.        *)
(*                                                                         *)
(* Spec      : every behaviour of the engine on a file system whose calls  *)
(*             succeed (panics of the engine itself included).             *)
(* SpecFault : Spec plus set/remove calls during which one file-system     *)
(*             call returns an I/O error.                                  *)
(* SpecCrash : Spec plus the end of the process in the middle of an        *)
(*             append or inside a compaction, and the open of the          *)
(*             directory it leaves.                                        *)
(* SpecServer: kvs-server on an empty directory and its clients; the       *)
(*             file-system calls of the engine succeed, or the append of   *)
(*             a request's record fails.                                   *)
(* SpecCli   : runs of the command-line tools, kvs on the directory or     *)
(*             kvs-client against the idle server.                         *)
(***************************************************************************)
EXTENDS Integers, Sequences, FiniteSets, TLC

VARIABLES
    files,            \* the directory: generation |-> records of <generation>.log
    status,           \* "open": a KvStore handle exists; "panicked": it unwound
    keydir,           \* KvStore.keydir : key |-> LogPointer
    readers,          \* KvStore.readers: generations with a registered LogReader
    writer,           \* KvStore.writer : [log_gen, log_pos]
    log_gen,          \* KvStore.log_gen
    stale_logs_size,  \* KvStore.stale_logs_size
    last,             \* the last call on the handle and what it returned
    cur,              \* history: per key the last set/remove that returned Ok
    compactions,      \* history: compactions completed by the current handle
    everCompacted,    \* history: some compaction completed on this directory
    ops,              \* history: number of appends and opens so far
    srv,              \* KvsServer: where listen/handle_client stands
    conns,            \* the TCP connections, in the order the listener yields them
    cli               \* the last run of a command-line tool and what it printed

\* the engine, its directory and its history
engine == <<files, status, keydir, readers, writer, log_gen, stale_logs_size,
            last, cur, compactions, everCompacted, ops>>
\* the server, its connections and the command-line tools
net == <<srv, conns, cli>>

vars == <<files, status, keydir, readers, writer, log_gen, stale_logs_size,
          last, cur, compactions, everCompacted, ops, srv, conns, cli>>

(***************************************************************************)
(* Bounds of the model.                                                    *)
(***************************************************************************)
MaxOps == 4
SmallLen == 1
BigLen == 1048576
\* with a one-character key the Set record of such a value is exactly
\* COMPACTION_THRESHOLD bytes long
EdgeLen == 1048546
MaxConns == 2     \* connections made to the server
MaxMsgs == 3      \* messages sent to the server, over all connections

Keys == {"a", "b"}
Values == {[ch |-> "x", n |-> SmallLen], [ch |-> "y", n |-> EdgeLen],
           [ch |-> "x", n |-> BigLen]}
NoValue == [ch |-> "-", n |-> 0]

(***************************************************************************)
(* Program constants.                                                      *)
(***************************************************************************)
COMPACTION_THRESHOLD == 1024 * 1024
SetOverhead == 29       \* bytes of {"Set":{"key":"","value":""}}
RemoveOverhead == 21    \* bytes of {"Remove":{"key":""}}

(***************************************************************************)
(* Command records and their encoding.                                     *)
(***************************************************************************)
SetCmd(key, value) == [type |-> "Set", key |-> key, value |-> value]
RemoveCmd(key) == [type |-> "Remove", key |-> key]
\* the first len bytes of the encoding of a record of key: what a write cut
\* short by the end of the process leaves at the end of a segment
TornCmd(key, len) == [type |-> "Torn", key |-> key, len |-> len]

\* serde_json::to_vec(&cmd).len()
EncodedLen(cmd) ==
    IF cmd.type = "Set"
    THEN SetOverhead + Len(cmd.key) + cmd.value.n
    ELSE IF cmd.type = "Remove"
    THEN RemoveOverhead + Len(cmd.key)
    ELSE cmd.len

RECURSIVE ByteOffset(_, _)
\* byte offset of the i-th record of file f (of the end of f for i = Len(f)+1)
ByteOffset(f, i) ==
    IF i <= 1 THEN 0 ELSE ByteOffset(f, i - 1) + EncodedLen(f[i - 1])

FileLen(f) == ByteOffset(f, Len(f) + 1)

LogPointer(gen, pos, len) == [log_gen |-> gen, pos |-> pos, len |-> len]

EmptyMap == [x \in {} |-> x]
Insert(m, k, v) == [x \in DOMAIN m \cup {k} |-> IF x = k THEN v ELSE m[x]]
Delete(m, k) == [x \in DOMAIN m \ {k} |-> m[x]]

\* File::create: a new empty file, or the existing one truncated
FileCreate(fs, gen) == Insert(fs, gen, <<>>)
\* fs::remove_file of every file of dels
RemoveFiles(fs, dels) == [g \in DOMAIN fs \ dels |-> fs[g]]

(***************************************************************************)
(* LogReader                                                               *)
(***************************************************************************)
\* LogReader::read_pointer: seek to pos, take len bytes, parse one Command
ReadPointer(fs, p) ==
    IF p.log_gen \notin DOMAIN fs
    THEN [res |-> "IoErr", value |-> NoValue]
    ELSE LET f == fs[p.log_gen]
             hits == {i \in 1..Len(f) :
                         ByteOffset(f, i) = p.pos /\ EncodedLen(f[i]) = p.len}
         IN  IF hits = {}
             THEN [res |-> "SerdeErr", value |-> NoValue]
             ELSE LET cmd == f[CHOOSE i \in hits : TRUE]
                  IN  IF cmd.type = "Set"
                      THEN [res |-> "Some", value |-> cmd.value]
                      ELSE IF cmd.type = "Remove"
                      THEN [res |-> "UnexpectedCommandType", value |-> NoValue]
                      ELSE [res |-> "SerdeErr", value |-> NoValue]

\* LogIterator::next for the i-th record: the pointer rebuilt from byte offsets
IterPointer(gen, f, i) ==
    LogPointer(gen, ByteOffset(f, i), ByteOffset(f, i + 1) - ByteOffset(f, i))

(***************************************************************************)
(* index_logs                                                              *)
(***************************************************************************)
Max(S) == CHOOSE x \in S : \A y \in S : y <= x
Min(S) == CHOOSE x \in S : \A y \in S : x <= y

RECURSIVE ReplayFile(_, _, _, _)
\* the while-let loop of index_logs over one segment, from record i on:
\* `while let Some(Ok(..)) = commands.next()` ends at the end of the file and
\* at the first record the iterator cannot decode
ReplayFile(gen, f, i, acc) ==
    IF i > Len(f) \/ f[i].type = "Torn" THEN acc
    ELSE LET cmd == f[i]
             add == IF cmd.key \in DOMAIN acc.keydir
                    THEN acc.keydir[cmd.key].len ELSE 0
             kd  == IF cmd.type = "Set"
                    THEN Insert(acc.keydir, cmd.key, IterPointer(gen, f, i))
                    ELSE Delete(acc.keydir, cmd.key)
         IN  ReplayFile(gen, f, i + 1,
                        [keydir |-> kd, stale |-> acc.stale + add])

RECURSIVE ReplayGens_Descending(_, _, _)
\* mutant of ReplayGens: the generations are replayed from the greatest down
ReplayGens_Descending(fs, gens, acc) ==
    IF gens = {} THEN acc
    ELSE LET g == Max(gens)
         IN  ReplayGens_Descending(fs, gens \ {g}, ReplayFile(g, fs[g], 1, acc))

RECURSIVE ReplayGens(_, _, _)
\* the for loop of index_logs over the generations in ascending order
ReplayGens(fs, gens, acc) ==
    IF gens = {} THEN acc
    ELSE LET g == Min(gens)
         IN  ReplayGens(fs, gens \ {g}, ReplayFile(g, fs[g], 1, acc))

\* mutant of CurrentLogGen: the greatest existing generation is taken again
CurrentLogGen_Reused(gens) == IF gens = {} THEN 1 ELSE Max(gens)

\* log_gens.last().unwrap_or(&0) + 1
CurrentLogGen(gens) == IF gens = {} THEN 1 ELSE Max(gens) + 1

IndexLogs(fs) ==
    LET acc == ReplayGens(fs, DOMAIN fs, [keydir |-> EmptyMap, stale |-> 0])
    IN  [keydir |-> acc.keydir,
         readers |-> DOMAIN fs,
         current_log_gen |-> CurrentLogGen(DOMAIN fs),
         stale |-> acc.stale]

\* KvStore::open on directory fs: the handle and the directory afterwards
OpenStore(fs) ==
    LET ix == IndexLogs(fs)
    IN  [files |-> FileCreate(fs, ix.current_log_gen),
         keydir |-> ix.keydir,
         readers |-> ix.readers \cup {ix.current_log_gen},
         writer |-> [log_gen |-> ix.current_log_gen, log_pos |-> 0],
         log_gen |-> ix.current_log_gen,
         stale_logs_size |-> ix.stale]

\* the fields of a handle, as one record
Store ==
    [files |-> files, keydir |-> keydir, readers |-> readers,
     writer |-> writer, log_gen |-> log_gen,
     stale_logs_size |-> stale_logs_size]

(***************************************************************************)
(* KvStore::get                                                            *)
(***************************************************************************)
GetIn(s, key) ==
    IF key \in DOMAIN s.keydir
    THEN IF s.keydir[key].log_gen \notin s.readers
         THEN [res |-> "panic", value |-> NoValue]
         ELSE ReadPointer(s.files, s.keydir[key])
    ELSE [res |-> "None", value |-> NoValue]

GetResult(key) == GetIn(Store, key)

(***************************************************************************)
(* LogWriter                                                               *)
(***************************************************************************)
\* mutant of AppendTo: the record goes to the oldest segment of the directory
AppendTo_Oldest(fs, gen, cmd) ==
    IF gen \in DOMAIN fs THEN [fs EXCEPT ![Min(DOMAIN fs)] = Append(@, cmd)]
    ELSE fs

\* the bytes of cmd written at the end of the writer's file and flushed
AppendTo(fs, gen, cmd) ==
    IF gen \in DOMAIN fs THEN [fs EXCEPT ![gen] = Append(@, cmd)] ELSE fs

\* mutant of WriteSetCmd: the pointer holds the position after the append
WriteSetCmd_PosAfter(s, key, value) ==
    LET cmd == SetCmd(key, value)
        pos == s.writer.log_pos
        len == EncodedLen(cmd)
    IN  [s |-> [s EXCEPT !.files = AppendTo(s.files, s.writer.log_gen, cmd),
                         !.writer.log_pos = pos + len],
         ptr |-> LogPointer(s.writer.log_gen, pos + len, len)]

\* LogWriter::write_set_cmd: the store afterwards and the pointer returned
WriteSetCmd(s, key, value) ==
    LET cmd == SetCmd(key, value)
        pos == s.writer.log_pos
        len == EncodedLen(cmd)
    IN  [s |-> [s EXCEPT !.files = AppendTo(s.files, s.writer.log_gen, cmd),
                         !.writer.log_pos = pos + len],
         ptr |-> LogPointer(s.writer.log_gen, pos, len)]

\* LogWriter::write_rm_cmd
WriteRmCmd(s, key) ==
    LET cmd == RemoveCmd(key)
    IN  [s EXCEPT !.files = AppendTo(s.files, s.writer.log_gen, cmd),
                  !.writer.log_pos = s.writer.log_pos + EncodedLen(cmd)]

(***************************************************************************)
(* KvStore::compact and KvStore::maybe_compact                             *)
(*                                                                         *)
(* order is the order in which the HashMap iterator yields the keydir.     *)
(* fault names the file-system call that returns an error ("none" if no    *)
(* call does); dels are the old segments already deleted when remove_file  *)
(* fails.                                                                  *)
(***************************************************************************)
Faults == {"append", "create", "read", "reader_new", "writer_new", "remove"}

\* the iteration orders of a HashMap with key set S
Orders(S) ==
    {o \in [1..Cardinality(S) -> S] :
        \A i, j \in 1..Cardinality(S) : i # j => o[i] # o[j]}

\* let old_log_gens = self.readers.keys()
OldLogGens(s) == s.readers

\* mutant of NewLogGen: the writer reopens the segment it already had
NewLogGen_Reused(compact_log_gen) == compact_log_gen - 1

\* let new_log_gen = compact_log_gen + 1
NewLogGen(compact_log_gen) == compact_log_gen + 1

RECURSIVE CopyLive(_, _, _, _, _, _)
\* the for loop of compact over the keydir, from the i-th key of order on;
\* acc = [res, out (records written), new_keydir, pos]
CopyLive(s, order, i, compact_log_gen, fault, acc) ==
    IF i > Len(order) THEN acc
    ELSE LET key == order[i]
             log_pointer == s.keydir[key]
         IN  IF log_pointer.log_gen \notin s.readers
             THEN [acc EXCEPT !.res = "panic"]
             ELSE IF fault = "read" /\ i = 1
             THEN [acc EXCEPT !.res = "IoErr"]
             ELSE LET r == ReadPointer(s.files, log_pointer)
                  IN  IF r.res # "Some"
                      THEN [acc EXCEPT !.res = r.res]
                      ELSE LET cmd == SetCmd(key, r.value)
                               len == EncodedLen(cmd)
                               new_log_pointer ==
                                   LogPointer(compact_log_gen, acc.pos, len)
                           IN  CopyLive(s, order, i + 1, compact_log_gen, fault,
                                   [res |-> "Ok",
                                    out |-> Append(acc.out, cmd),
                                    new_keydir |->
                                        Insert(acc.new_keydir, key, new_log_pointer),
                                    pos |-> acc.pos + len])

\* mutant of CompactRemove: the keydir of before the compaction is kept
CompactRemove_KeepsKeydir(s, old_log_gens, new_keydir, new_log_gen, fault, dels) ==
    IF (fault = "remove" /\ old_log_gens # {})
          \/ old_log_gens \ DOMAIN s.files # {}
    THEN [res |-> "IoErr",
          s |-> [s EXCEPT !.files = RemoveFiles(s.files, dels)]]
    ELSE [res |-> "Ok",
          s |-> [s EXCEPT !.files = RemoveFiles(s.files, old_log_gens),
                          !.log_gen = new_log_gen,
                          !.stale_logs_size = 0]]

\* mutant of CompactRemove: the stale bytes are not reset (line 148)
CompactRemove_KeepsStale(s, old_log_gens, new_keydir, new_log_gen, fault, dels) ==
    IF (fault = "remove" /\ old_log_gens # {})
          \/ old_log_gens \ DOMAIN s.files # {}
    THEN [res |-> "IoErr",
          s |-> [s EXCEPT !.files = RemoveFiles(s.files, dels)]]
    ELSE [res |-> "Ok",
          s |-> [s EXCEPT !.files = RemoveFiles(s.files, old_log_gens),
                          !.keydir = new_keydir,
                          !.log_gen = new_log_gen]]

\* compact, lines 141-148: delete the old segments, install the new keydir
CompactRemove(s, old_log_gens, new_keydir, new_log_gen, fault, dels) ==
    IF (fault = "remove" /\ old_log_gens # {})
          \/ old_log_gens \ DOMAIN s.files # {}
    THEN [res |-> "IoErr",
          s |-> [s EXCEPT !.files = RemoveFiles(s.files, dels)]]
    ELSE [res |-> "Ok",
          s |-> [s EXCEPT !.files = RemoveFiles(s.files, old_log_gens),
                          !.keydir = new_keydir,
                          !.log_gen = new_log_gen,
                          !.stale_logs_size = 0]]

\* compact, lines 133-139: the readers map and the writer are replaced
CompactSwitch(s, old_log_gens, new_keydir, compact_log_gen, new_log_gen, fault, dels) ==
    IF fault = "reader_new"
    THEN [res |-> "IoErr", s |-> [s EXCEPT !.readers = {}]]
    ELSE IF fault = "writer_new"
    THEN [res |-> "IoErr", s |-> [s EXCEPT !.readers = {compact_log_gen}]]
    ELSE CompactRemove(
             [s EXCEPT !.readers = {compact_log_gen},
                       !.writer = [log_gen |-> new_log_gen, log_pos |-> 0],
                       !.files = FileCreate(s.files, new_log_gen)],
             old_log_gens, new_keydir, new_log_gen, fault, dels)

\* compact, line 131: the BufWriter of the compaction file is flushed by
\* compact_log.flush(), or when it is dropped on an early return or a panic
CompactFlush(s, old_log_gens, copied, compact_log_gen, fault, dels) ==
    IF copied.res # "Ok"
    THEN [res |-> copied.res,
          s |-> [s EXCEPT !.files[compact_log_gen] = copied.out]]
    ELSE CompactSwitch([s EXCEPT !.files[compact_log_gen] = copied.out],
                       old_log_gens, copied.new_keydir, compact_log_gen,
                       NewLogGen(compact_log_gen), fault, dels)

\* mutant of CompactCopy: the copy starts at the writer's position, not at 0
CompactCopy_FromWriterPos(s, old_log_gens, compact_log_gen, order, fault, dels) ==
    CompactFlush(s, old_log_gens,
                 CopyLive(s, order, 1, compact_log_gen, fault,
                          [res |-> "Ok", out |-> <<>>,
                           new_keydir |-> EmptyMap, pos |-> s.writer.log_pos]),
                 compact_log_gen, fault, dels)

\* compact, lines 98-129, s being the store once the compaction file exists
CompactCopy(s, old_log_gens, compact_log_gen, order, fault, dels) ==
    CompactFlush(s, old_log_gens,
                 CopyLive(s, order, 1, compact_log_gen, fault,
                          [res |-> "Ok", out |-> <<>>,
                           new_keydir |-> EmptyMap, pos |-> 0]),
                 compact_log_gen, fault, dels)

\* KvStore::compact: [res, s]
Compact(s, order, fault, dels) ==
    IF fault = "create"
    THEN [res |-> "IoErr", s |-> s]
    ELSE CompactCopy([s EXCEPT !.files = FileCreate(s.files, s.log_gen + 1)],
                     OldLogGens(s), s.log_gen + 1, order, fault, dels)

\* mutant of MaybeCompact: compaction also runs at the threshold itself
MaybeCompact_AtThreshold(s, order, fault, dels) ==
    IF s.stale_logs_size >= COMPACTION_THRESHOLD
    THEN LET c == Compact(s, order, fault, dels)
         IN  [res |-> c.res, s |-> c.s, compacted |-> c.res = "Ok"]
    ELSE [res |-> "Ok", s |-> s, compacted |-> FALSE]

\* maybe_compact: [res, s, compacted]
MaybeCompact(s, order, fault, dels) ==
    IF s.stale_logs_size > COMPACTION_THRESHOLD
    THEN LET c == Compact(s, order, fault, dels)
         IN  [res |-> c.res, s |-> c.s, compacted |-> c.res = "Ok"]
    ELSE [res |-> "Ok", s |-> s, compacted |-> FALSE]

(***************************************************************************)
(* KvStore::set and KvStore::remove as functions of the handle             *)
(***************************************************************************)
\* mutant of SetIn: the superseded record is not counted as stale
SetIn_NoAccounting(s, key, value, order, fault, dels) ==
    IF fault = "append"
    THEN [res |-> "IoErr", s |-> s, compacted |-> FALSE]
    ELSE LET w == WriteSetCmd(s, key, value)
             s1 == [w.s EXCEPT !.keydir = Insert(s.keydir, key, w.ptr)]
         IN  MaybeCompact(s1, order, fault, dels)

SetIn(s, key, value, order, fault, dels) ==
    IF fault = "append"
    THEN [res |-> "IoErr", s |-> s, compacted |-> FALSE]
    ELSE LET w == WriteSetCmd(s, key, value)
             add == IF key \in DOMAIN s.keydir THEN s.keydir[key].len ELSE 0
             s1 == [w.s EXCEPT !.stale_logs_size = @ + add,
                               !.keydir = Insert(s.keydir, key, w.ptr)]
         IN  MaybeCompact(s1, order, fault, dels)

\* mutant of RemoveIn: the key stays in the keydir
RemoveIn_KeepsKey(s, key, order, fault, dels) ==
    IF key \notin DOMAIN s.keydir
    THEN [res |-> "UnknownKeyError", s |-> s, compacted |-> FALSE]
    ELSE LET w == WriteRmCmd(s, key)
             s1 == [w EXCEPT !.stale_logs_size = @ + s.keydir[key].len]
         IN  MaybeCompact(s1, order, fault, dels)

\* mutant of RemoveIn: the Remove record is appended before the key is looked up
RemoveIn_WritesFirst(s, key, order, fault, dels) ==
    LET w == WriteRmCmd(s, key)
    IN  IF key \notin DOMAIN s.keydir
        THEN [res |-> "UnknownKeyError", s |-> w, compacted |-> FALSE]
        ELSE MaybeCompact([w EXCEPT !.stale_logs_size = @ + s.keydir[key].len,
                                    !.keydir = Delete(s.keydir, key)],
                          order, fault, dels)

RemoveIn(s, key, order, fault, dels) ==
    IF key \notin DOMAIN s.keydir
    THEN [res |-> "UnknownKeyError", s |-> s, compacted |-> FALSE]
    ELSE IF fault = "append"
    THEN [res |-> "IoErr", s |-> s, compacted |-> FALSE]
    ELSE LET w == WriteRmCmd(s, key)
             add == IF key \in DOMAIN s.keydir THEN s.keydir[key].len ELSE 0
             s1 == [w EXCEPT !.stale_logs_size = @ + add,
                             !.keydir = Delete(s.keydir, key)]
         IN  MaybeCompact(s1, order, fault, dels)

(***************************************************************************)
(* The state machine                                                       *)
(***************************************************************************)
NoOp == [op |-> "open", key |-> "-", value |-> NoValue, res |-> "Ok",
         compacted |-> FALSE]
Never == [st |-> "never", value |-> NoValue]
Removed == [st |-> "removed", value |-> NoValue]
IsSet(value) == [st |-> "set", value |-> value]

\* the handle and the directory become those of s; a panic unwinds the handle
Install(s, res) ==
    /\ files' = s.files
    /\ status' = IF res = "panic" THEN "panicked" ELSE "open"
    /\ keydir' = IF res = "panic" THEN EmptyMap ELSE s.keydir
    /\ readers' = IF res = "panic" THEN {} ELSE s.readers
    /\ writer' = IF res = "panic" THEN [log_gen |-> 0, log_pos |-> 0]
                 ELSE s.writer
    /\ log_gen' = IF res = "panic" THEN 0 ELSE s.log_gen
    /\ stale_logs_size' = IF res = "panic" THEN 0 ELSE s.stale_logs_size

\* KvStore::open on an empty directory
InitStore ==
    LET s == OpenStore(EmptyMap)
    IN  /\ files = s.files
        /\ status = "open"
        /\ keydir = s.keydir
        /\ readers = s.readers
        /\ writer = s.writer
        /\ log_gen = s.log_gen
        /\ stale_logs_size = s.stale_logs_size
        /\ last = NoOp
        /\ cur = [k \in Keys |-> Never]
        /\ compactions = 0
        /\ everCompacted = FALSE
        /\ ops = 0

\* no server runs: the engine is called directly
NoServer == [pc |-> "off", conn |-> 0, resp |-> [kind |-> "-"]]
\* no command-line tool has run
NoRun == [tool |-> "-"]

Init ==
    /\ InitStore
    /\ srv = NoServer
    /\ conns = <<>>
    /\ cli = NoRun

Record(op, key, value, r) ==
    /\ last' = [op |-> op, key |-> key, value |-> value, res |-> r.res,
                compacted |-> r.compacted]
    /\ compactions' = IF r.res = "panic" THEN 0
                      ELSE IF r.compacted THEN compactions + 1 ELSE compactions
    /\ everCompacted' = (everCompacted \/ r.compacted)

DoSet(key, value, order, fault, dels) ==
    LET r == SetIn(Store, key, value, order, fault, dels)
    IN  /\ Install(r.s, r.res)
        /\ Record("set", key, value, r)
        /\ cur' = IF r.res = "Ok" THEN [cur EXCEPT ![key] = IsSet(value)]
                  ELSE cur
        /\ ops' = ops + 1

DoRemove(key, order, fault, dels) ==
    LET r == RemoveIn(Store, key, order, fault, dels)
    IN  /\ Install(r.s, r.res)
        /\ Record("remove", key, NoValue, r)
        /\ cur' = IF r.res = "Ok" THEN [cur EXCEPT ![key] = Removed] ELSE cur
        /\ ops' = IF r.res = "UnknownKeyError" THEN ops ELSE ops + 1

\* engine.set(key, value), every file-system call succeeding
Set(key, value) ==
    /\ status = "open"
    /\ ops < MaxOps
    /\ \E order \in Orders(DOMAIN keydir \cup {key}) :
           DoSet(key, value, order, "none", {})
    /\ UNCHANGED net

\* engine.remove(key), every file-system call succeeding
Remove(key) ==
    /\ status = "open"
    /\ ops < MaxOps
    /\ \E order \in Orders(DOMAIN keydir \ {key}) :
           DoRemove(key, order, "none", {})
    /\ UNCHANGED net

DoGet(key) ==
    /\ LET r == GetResult(key)
       IN  /\ Install(Store, r.res)
           /\ last' = [op |-> "get", key |-> key, value |-> r.value,
                       res |-> r.res, compacted |-> FALSE]
           /\ compactions' = IF r.res = "panic" THEN 0 ELSE compactions
    /\ UNCHANGED <<cur, everCompacted, ops>>

\* engine.get(key)
Get(key) ==
    /\ status = "open"
    /\ DoGet(key)
    /\ UNCHANGED net

\* KvStore::open on the directory as it is
DoOpen ==
    /\ ops < MaxOps
    /\ Install(OpenStore(files), "Ok")
    /\ last' = NoOp
    /\ compactions' = 0
    /\ ops' = ops + 1
    /\ UNCHANGED <<cur, everCompacted>>
    /\ UNCHANGED net

\* the handle is dropped and the directory opened again
Reopen == status = "open" /\ DoOpen

\* the directory is opened again after the handle unwound in a panic
Recover == status = "panicked" /\ DoOpen

\* engine.set(key, value) during which one file-system call fails
SetFault(key, value, fault) ==
    /\ status = "open"
    /\ ops < MaxOps
    /\ \E order \in Orders(DOMAIN keydir \cup {key}) :
       \E dels \in IF fault = "remove" THEN SUBSET readers \ {readers} ELSE {{}} :
           DoSet(key, value, order, fault, dels)
    /\ UNCHANGED net

\* engine.remove(key) during which one file-system call fails
RemoveFault(key, fault) ==
    /\ status = "open"
    /\ ops < MaxOps
    /\ key \in DOMAIN keydir
    /\ \E order \in Orders(DOMAIN keydir \ {key}) :
       \E dels \in IF fault = "remove" THEN SUBSET readers \ {readers} ELSE {{}} :
           DoRemove(key, order, fault, dels)
    /\ UNCHANGED net

\* the process ends while set(key, value) appends its record: only the
\* first len bytes of the record reach the segment
CrashInAppend(key, value, len) ==
    /\ status = "open"
    /\ ops < MaxOps
    /\ files' = AppendTo(files, writer.log_gen, TornCmd(key, len))
    /\ status' = "crashed"
    /\ keydir' = EmptyMap
    /\ readers' = {}
    /\ writer' = [log_gen |-> 0, log_pos |-> 0]
    /\ log_gen' = 0
    /\ stale_logs_size' = 0
    /\ last' = [op |-> "crash", key |-> key, value |-> value, res |-> "-",
                compacted |-> FALSE]
    /\ compactions' = 0
    /\ ops' = ops + 1
    /\ UNCHANGED <<cur, everCompacted>>
    /\ UNCHANGED net

\* set, lines 182-190, and remove, lines 203-209: the store when
\* maybe_compact is called
Accounted(s, op, key, value) ==
    LET w == IF op = "set" THEN WriteSetCmd(s, key, value).s
             ELSE WriteRmCmd(s, key)
        add == IF key \in DOMAIN s.keydir THEN s.keydir[key].len ELSE 0
    IN  [w EXCEPT !.stale_logs_size = @ + add,
                  !.keydir = IF op = "set"
                             THEN Insert(s.keydir, key,
                                         WriteSetCmd(s, key, value).ptr)
                             ELSE Delete(s.keydir, key)]

\* the directory a process leaves that stops inside compact once the
\* compaction segment is flushed: at "flushed" before the writer of the new
\* segment is made (line 139), at "switched" after it, the old segments of
\* dels being deleted already (lines 141-145)
CompactCrashFiles(s, order, stage, dels) ==
    LET c == s.log_gen + 1
        copied == CopyLive(s, order, 1, c, "none",
                           [res |-> "Ok", out |-> <<>>,
                            new_keydir |-> EmptyMap, pos |-> 0])
        flushed == Insert(s.files, c, copied.out)
    IN  [res |-> copied.res,
         files |-> IF stage = "flushed" THEN flushed
                   ELSE RemoveFiles(FileCreate(flushed, NewLogGen(c)), dels)]

\* the process ends inside the compaction that set(key, value) or
\* remove(key) triggered, after the compaction segment was flushed
CrashInCompaction(op, key, value, stage) ==
    /\ status = "open"
    /\ ops < MaxOps
    /\ op = "remove" => key \in DOMAIN keydir
    /\ Accounted(Store, op, key, value).stale_logs_size > COMPACTION_THRESHOLD
    /\ \E order \in Orders(DOMAIN Accounted(Store, op, key, value).keydir) :
       \E dels \in IF stage = "flushed" THEN {{}} ELSE SUBSET readers :
           LET crash == CompactCrashFiles(Accounted(Store, op, key, value),
                                          order, stage, dels)
           IN  /\ crash.res = "Ok"
               /\ files' = crash.files
    /\ status' = "crashed"
    /\ keydir' = EmptyMap
    /\ readers' = {}
    /\ writer' = [log_gen |-> 0, log_pos |-> 0]
    /\ log_gen' = 0
    /\ stale_logs_size' = 0
    /\ last' = [op |-> "crash_compact", key |-> key, value |-> value,
                res |-> op, compacted |-> FALSE]
    /\ compactions' = 0
    /\ ops' = ops + 1
    /\ UNCHANGED <<cur, everCompacted>>
    /\ UNCHANGED net

\* a new process opens the directory the ended one left
Restart == status = "crashed" /\ DoOpen

Next ==
    \/ \E key \in Keys, value \in Values : Set(key, value)
    \/ \E key \in Keys : Remove(key)
    \/ \E key \in Keys : Get(key)
    \/ Reopen
    \/ Recover

NextFault ==
    \/ Next
    \/ \E key \in Keys, value \in Values, fault \in Faults :
           SetFault(key, value, fault)
    \/ \E key \in Keys, fault \in Faults : RemoveFault(key, fault)

\* the byte counts at which an append of SetCmd(key, value) may be cut
TornLens(key, value) == {1, EncodedLen(SetCmd(key, value)) - 1}

NextCrash ==
    \/ Next
    \/ \E key \in Keys, value \in Values :
           \E len \in TornLens(key, value) : CrashInAppend(key, value, len)
    \/ \E key \in Keys, value \in Values, stage \in {"flushed", "switched"} :
           CrashInCompaction("set", key, value, stage)
    \/ \E key \in Keys, stage \in {"flushed", "switched"} :
           CrashInCompaction("remove", key, NoValue, stage)
    \/ Restart

Spec == Init /\ [][Next]_vars

(***************************************************************************)
(* The wire protocol (src/src/codec.rs) and KvsServer (src/src/server.rs)  *)
(*                                                                         *)
(* A connection is [inbox, read, out, closed, st]: the messages its client *)
(* has sent, how many of them the server has decoded, the responses        *)
(* written to it, whether the client has shut its side down, and where the *)
(* connection is ("queued" in the listener, "serving", "ended").           *)
(* srv is [pc, conn, resp]: pc = "accept" in the loop of listen, "read" at *)
(* the head of the loop of handle_client for connection conn, "write"      *)
(* between handle_message and the write of resp, "dead" once a panic of    *)
(* the engine has ended the process.                                       *)
(***************************************************************************)
SetMsg(key, value) == [kind |-> "Set", key |-> key, value |-> value]
GetMsg(key) == [kind |-> "Get", key |-> key, value |-> NoValue]
RemoveMsg(key) == [kind |-> "Remove", key |-> key, value |-> NoValue]
\* bytes that do not parse as a Message
Malformed == [kind |-> "Malformed", key |-> "-", value |-> NoValue]

\* the keys and values the clients use
SrvKeys == {"a"}
SrvValues == {[ch |-> "x", n |-> SmallLen], [ch |-> "x", n |-> BigLen]}

Messages ==
    {SetMsg(key, value) : key \in SrvKeys, value \in SrvValues}
        \cup {GetMsg(key) : key \in SrvKeys}
        \cup {RemoveMsg(key) : key \in SrvKeys}
        \cup {Malformed}

\* impl fmt::Display for KvStoreError
ErrText(res) ==
    IF res = "UnknownKeyError" THEN "Key not found"
    ELSE IF res = "UnexpectedCommandType" THEN "Unexpected command"
    ELSE IF res = "IoErr" THEN "<text of the io::Error>"
    ELSE "<text of the serde_json::Error>"

NoResp == [kind |-> "-"]
OkResp(kind, opt, value) ==
    [kind |-> kind, arm |-> "ok", opt |-> opt, value |-> value, text |-> ""]
ErrResp(kind, text) ==
    [kind |-> kind, arm |-> "err", opt |-> "-", value |-> NoValue,
     text |-> text]

\* mutant of HandleMessage: a Get that found nothing is answered as an error
HandleMessage_GetNoneIsErr(kind, res, value) ==
    IF kind = "Get"
    THEN IF res = "Some" THEN OkResp("Get", "some", value)
         ELSE ErrResp("Get", "Key not found")
    ELSE IF res = "Ok" THEN OkResp(kind, "-", NoValue)
         ELSE ErrResp(kind, ErrText(res))

\* handle_message: the Response built from what the engine returned
HandleMessage(kind, res, value) ==
    IF kind = "Get"
    THEN IF res = "Some" THEN OkResp("Get", "some", value)
         ELSE IF res = "None" THEN OkResp("Get", "none", NoValue)
         ELSE ErrResp("Get", ErrText(res))
    ELSE IF res = "Ok" THEN OkResp(kind, "-", NoValue)
         ELSE ErrResp(kind, ErrText(res))

NewConn ==
    [inbox |-> <<>>, read |-> 0, out |-> <<>>, closed |-> FALSE,
     st |-> "queued"]

RECURSIVE Sent(_)
\* the messages sent on the connections 1..c
Sent(c) == IF c = 0 THEN 0 ELSE Len(conns[c].inbox) + Sent(c - 1)

\* a client connects
Connect ==
    /\ srv.pc \in {"accept", "read", "write"}
    /\ Len(conns) < MaxConns
    /\ conns' = Append(conns, NewConn)
    /\ UNCHANGED <<engine, srv, cli>>

\* the client of connection c sends msg
Send(c, msg) ==
    /\ srv.pc \in {"accept", "read", "write"}
    /\ c <= Len(conns)
    /\ conns[c].st # "ended" /\ ~conns[c].closed
    /\ Sent(Len(conns)) < MaxMsgs
    /\ conns' = [conns EXCEPT ![c].inbox = Append(@, msg)]
    /\ UNCHANGED <<engine, srv, cli>>

\* the client of connection c shuts its side down
Close(c) ==
    /\ srv.pc \in {"accept", "read", "write"}
    /\ c <= Len(conns)
    /\ conns[c].st # "ended" /\ ~conns[c].closed
    /\ conns' = [conns EXCEPT ![c].closed = TRUE]
    /\ UNCHANGED <<engine, srv, cli>>

\* mutant of Accept: a queued connection is taken up while another is served
Accept_WhileServing ==
    /\ srv.pc \in {"accept", "read"}
    /\ \E c \in 1..Len(conns) :
           /\ conns[c].st = "queued"
           /\ \A d \in 1..(c - 1) : conns[d].st # "queued"
           /\ conns' = [conns EXCEPT ![c].st = "serving"]
           /\ srv' = [pc |-> "read", conn |-> c, resp |-> NoResp]
    /\ UNCHANGED <<engine, cli>>

\* listen: listener.incoming() yields the next connection and handle_client
\* is called with it
Accept ==
    /\ srv.pc = "accept"
    /\ \E c \in 1..Len(conns) :
           /\ conns[c].st = "queued"
           /\ \A d \in 1..(c - 1) : conns[d].st # "queued"
           /\ conns' = [conns EXCEPT ![c].st = "serving"]
           /\ srv' = [pc |-> "read", conn |-> c, resp |-> NoResp]
    /\ UNCHANGED <<engine, cli>>

\* the message handle_client is about to decode on the served connection
HasNext == srv.pc = "read" /\ conns[srv.conn].read < Len(conns[srv.conn].inbox)
NextMsg == conns[srv.conn].inbox[conns[srv.conn].read + 1]

\* handle_client, lines 53-56: the message is decoded and handle_message has
\* returned (the engine call is the step's own conjunct); a panic of the
\* engine ends the process
Dispatched(kind) ==
    /\ conns' = [conns EXCEPT ![srv.conn].read = @ + 1]
    /\ srv' = IF last'.res = "panic"
              THEN [pc |-> "dead", conn |-> srv.conn, resp |-> NoResp]
              ELSE [pc |-> "write", conn |-> srv.conn,
                    resp |-> HandleMessage(kind, last'.res, last'.value)]
    /\ UNCHANGED cli

DispatchSet ==
    /\ HasNext /\ NextMsg.kind = "Set"
    /\ \E order \in Orders(DOMAIN keydir \cup {NextMsg.key}) :
           DoSet(NextMsg.key, NextMsg.value, order, "none", {})
    /\ Dispatched("Set")

DispatchGet ==
    /\ HasNext /\ NextMsg.kind = "Get"
    /\ DoGet(NextMsg.key)
    /\ Dispatched("Get")

DispatchRemove ==
    /\ HasNext /\ NextMsg.kind = "Remove"
    /\ \E order \in Orders(DOMAIN keydir \ {NextMsg.key}) :
           DoRemove(NextMsg.key, order, "none", {})
    /\ Dispatched("Remove")

\* a Set or Remove request during which the append of the record fails
DispatchFault ==
    /\ HasNext /\ NextMsg.kind \in {"Set", "Remove"}
    /\ IF NextMsg.kind = "Set"
       THEN \E order \in Orders(DOMAIN keydir \cup {NextMsg.key}) :
                DoSet(NextMsg.key, NextMsg.value, order, "append", {})
       ELSE \E order \in Orders(DOMAIN keydir \ {NextMsg.key}) :
                DoRemove(NextMsg.key, order, "append", {})
    /\ Dispatched(NextMsg.kind)

\* handle_client, lines 59-60: the response is written and flushed
Respond ==
    /\ srv.pc = "write"
    /\ conns' = [conns EXCEPT ![srv.conn].out = Append(@, srv.resp)]
    /\ srv' = [pc |-> "read", conn |-> srv.conn, resp |-> NoResp]
    /\ UNCHANGED <<engine, cli>>

\* mutant of DecodeError: the message is skipped and the connection served on
DecodeError_Skips ==
    /\ HasNext /\ NextMsg.kind = "Malformed"
    /\ conns' = [conns EXCEPT ![srv.conn].read = @ + 1]
    /\ UNCHANGED <<engine, srv, cli>>

\* handle_client, line 53: `message?` returns the decode error; listen logs
\* it and goes on to the next connection
DecodeError ==
    /\ HasNext /\ NextMsg.kind = "Malformed"
    /\ conns' = [conns EXCEPT ![srv.conn].st = "ended"]
    /\ srv' = [pc |-> "accept", conn |-> 0, resp |-> NoResp]
    /\ UNCHANGED <<engine, cli>>

\* handle_client, lines 52 and 63: the message stream ends, Ok(()) is returned
EndOfStream ==
    /\ srv.pc = "read"
    /\ conns[srv.conn].read = Len(conns[srv.conn].inbox)
    /\ conns[srv.conn].closed
    /\ conns' = [conns EXCEPT ![srv.conn].st = "ended"]
    /\ srv' = [pc |-> "accept", conn |-> 0, resp |-> NoResp]
    /\ UNCHANGED <<engine, cli>>

\* kvs-server: the store is opened, the server listens
InitServer ==
    /\ InitStore
    /\ srv = [pc |-> "accept", conn |-> 0, resp |-> NoResp]
    /\ conns = <<>>
    /\ cli = NoRun

NextServer ==
    \/ Connect
    \/ \E c \in 1..MaxConns, msg \in Messages : Send(c, msg)
    \/ \E c \in 1..MaxConns : Close(c)
    \/ Accept
    \/ DispatchSet
    \/ DispatchGet
    \/ DispatchRemove
    \/ DispatchFault
    \/ Respond
    \/ DecodeError
    \/ EndOfStream

SpecServer == InitServer /\ [][NextServer]_vars

SpecFault == Init /\ [][NextFault]_vars

SpecCrash == Init /\ [][NextCrash]_vars

(***************************************************************************)
(* The command-line tools: kvs (src/src/bin/kvs.rs), which opens the       *)
(* directory itself, and kvs-client (src/src/bin/kvs-client.rs with        *)
(* src/src/client.rs), which asks a running server.                        *)
(*                                                                         *)
(* A run is [tool, cmd, key, missing, stdout, nl, stderr, exit]: missing   *)
(* tells whether the key was absent from the store when the tool ran,      *)
(* stdout is [text, value] (text "{}" stands for the value itself), nl     *)
(* whether a newline follows, exit the exit status of the process.         *)
(***************************************************************************)
Run(tool, cmd, key, missing, text, value, nl, stderr, exit) ==
    [tool |-> tool, cmd |-> cmd, key |-> key, missing |-> missing,
     stdout |-> [text |-> text, value |-> value], nl |-> nl,
     stderr |-> stderr, exit |-> exit]

\* what std prints for `Err(e)` returned from main: "Error: {e:?}"
MainErr(res) ==
    IF res = "UnknownKeyError" THEN "Error: UnknownKeyError"
    ELSE IF res = "UnexpectedCommandType" THEN "Error: UnexpectedCommandType"
    ELSE IF res = "IoErr" THEN "Error: IoErr(..)"
    ELSE "Error: SerdeErr(..)"

\* bin/kvs.rs main, lines 41-62, from what the engine call returned
KvsMain(cmd, key, missing, res, value) ==
    IF cmd = "get"
    THEN IF res = "Some"
         THEN Run("kvs", cmd, key, missing, "{}", value, TRUE, "", 0)
         ELSE IF res = "None"
         THEN Run("kvs", cmd, key, missing, "Key not found", NoValue, FALSE,
                  "", 0)
         ELSE Run("kvs", cmd, key, missing, "", NoValue, FALSE,
                  "panicked at unwrap()", 101)
    ELSE IF res = "Ok"
    THEN Run("kvs", cmd, key, missing, "", NoValue, FALSE, "", 0)
    ELSE IF cmd = "rm" /\ res = "UnknownKeyError"
    THEN Run("kvs", cmd, key, missing, "Key not found", NoValue, FALSE, "", 1)
    ELSE Run("kvs", cmd, key, missing, "", NoValue, FALSE, MainErr(res), 1)

\* KvsClient::get/set/remove and bin/kvs-client.rs main, lines 56-69, from
\* the response read (NoResp: the stream ended without one)
ClientMain(cmd, key, missing, resp) ==
    IF resp = NoResp
    THEN Run("kvs-client", cmd, key, missing, "", NoValue, FALSE,
             "Error: SerdeErr(..)", 1)
    ELSE IF resp.arm = "err"
    THEN Run("kvs-client", cmd, key, missing, "", NoValue, FALSE,
             IF resp.text = "Key not found"
             THEN "Error: StringError(\"Key not found\")"
             ELSE "Error: StringError(..)", 1)
    ELSE IF cmd = "get" /\ resp.opt = "some"
    THEN Run("kvs-client", cmd, key, missing, "{}", resp.value, TRUE, "", 0)
    ELSE IF cmd = "get"
    THEN Run("kvs-client", cmd, key, missing, "Key not found", NoValue, TRUE,
             "", 0)
    ELSE Run("kvs-client", cmd, key, missing, "", NoValue, FALSE, "", 0)

\* a run of kvs: KvStore::open on the current directory, then one call
KvsOpened == OpenStore(files)

KvsSet(key, value) ==
    /\ srv.pc = "off"
    /\ ops + 2 <= MaxOps
    /\ \E order \in Orders(DOMAIN KvsOpened.keydir \cup {key}) :
           LET r == SetIn(KvsOpened, key, value, order, "none", {})
           IN  /\ Install(r.s, r.res)
               /\ last' = [op |-> "set", key |-> key, value |-> value,
                           res |-> r.res, compacted |-> r.compacted]
               /\ compactions' = IF r.compacted THEN 1 ELSE 0
               /\ everCompacted' = (everCompacted \/ r.compacted)
               /\ cur' = IF r.res = "Ok" THEN [cur EXCEPT ![key] = IsSet(value)]
                         ELSE cur
               /\ cli' = KvsMain("set", key, key \notin DOMAIN KvsOpened.keydir,
                                 r.res, NoValue)
    /\ ops' = ops + 2
    /\ UNCHANGED <<srv, conns>>

KvsGet(key) ==
    /\ srv.pc = "off"
    /\ ops + 1 <= MaxOps
    /\ LET r == GetIn(KvsOpened, key)
       IN  /\ Install(KvsOpened, r.res)
           /\ last' = [op |-> "get", key |-> key, value |-> r.value,
                       res |-> r.res, compacted |-> FALSE]
           /\ cli' = KvsMain("get", key, key \notin DOMAIN KvsOpened.keydir,
                             r.res, r.value)
    /\ compactions' = 0
    /\ ops' = ops + 1
    /\ UNCHANGED <<cur, everCompacted, srv, conns>>

KvsRm(key) ==
    /\ srv.pc = "off"
    /\ ops + 2 <= MaxOps
    /\ \E order \in Orders(DOMAIN KvsOpened.keydir \ {key}) :
           LET r == RemoveIn(KvsOpened, key, order, "none", {})
           IN  /\ Install(r.s, r.res)
               /\ last' = [op |-> "remove", key |-> key, value |-> NoValue,
                           res |-> r.res, compacted |-> r.compacted]
               /\ compactions' = IF r.compacted THEN 1 ELSE 0
               /\ everCompacted' = (everCompacted \/ r.compacted)
               /\ cur' = IF r.res = "Ok" THEN [cur EXCEPT ![key] = Removed]
                         ELSE cur
               /\ cli' = KvsMain("rm", key, key \notin DOMAIN KvsOpened.keydir,
                                 r.res, NoValue)
    /\ ops' = ops + 2
    /\ UNCHANGED <<srv, conns>>

\* a run of kvs-client against the idle server: it connects, sends one
\* message, reads the response, prints and exits; the server is back in its
\* accept loop unless the engine panicked
Served(cmd, kind, key, missing) ==
    /\ srv' = IF last'.res = "panic"
              THEN [pc |-> "dead", conn |-> 0, resp |-> NoResp]
              ELSE srv
    /\ cli' = ClientMain(cmd, key, missing,
                         IF last'.res = "panic" THEN NoResp
                         ELSE HandleMessage(kind, last'.res, last'.value))
    /\ UNCHANGED conns

ClientSet(key, value) ==
    /\ srv.pc = "accept" /\ status = "open"
    /\ ops < MaxOps
    /\ \E order \in Orders(DOMAIN keydir \cup {key}) :
           DoSet(key, value, order, "none", {})
    /\ Served("set", "Set", key, key \notin DOMAIN keydir)

ClientGet(key) ==
    /\ srv.pc = "accept" /\ status = "open"
    /\ DoGet(key)
    /\ Served("get", "Get", key, key \notin DOMAIN keydir)

ClientRm(key) ==
    /\ srv.pc = "accept" /\ status = "open"
    /\ ops < MaxOps
    /\ \E order \in Orders(DOMAIN keydir \ {key}) :
           DoRemove(key, order, "none", {})
    /\ Served("rm", "Remove", key, key \notin DOMAIN keydir)

\* the directory is either used by runs of kvs or served by kvs-server
InitCli ==
    /\ InitStore
    /\ srv \in {NoServer, [pc |-> "accept", conn |-> 0, resp |-> NoResp]}
    /\ conns = <<>>
    /\ cli = NoRun

NextCli ==
    \/ \E key \in Keys, value \in Values : KvsSet(key, value)
    \/ \E key \in Keys : KvsGet(key)
    \/ \E key \in Keys : KvsRm(key)
    \/ \E key \in Keys, value \in Values : ClientSet(key, value)
    \/ \E key \in Keys : ClientGet(key)
    \/ \E key \in Keys : ClientRm(key)

SpecCli == InitCli /\ [][NextCli]_vars

(***************************************************************************)
(* Properties                                                              *)
(***************************************************************************)
Some(value) == [res |-> "Some", value |-> value]

\* C1: a set(k, v) that returned Ok, immediately followed by get(k), gives
\* Some(v), in every state of an open store, also after compactions.
C1_SetThenGet ==
    (status = "open" /\ last.op = "set" /\ last.res = "Ok")
        => GetResult(last.key) = Some(last.value)

\* C2: once a compaction has run, every live key is readable through get and
\* get returns the value of its most recent set, also for operations done
\* after the compaction finished.
C2_LiveKeysReadableAfterCompaction ==
    (status = "open" /\ everCompacted)
        => \A k \in Keys :
               cur[k].st = "set" => GetResult(k) = Some(cur[k].value)

\* C3: dropping the handle and opening the same directory again gives a
\* store whose get(k) equals the get(k) of the dropped handle, for every k.
C3_ReopenSameGets ==
    [][(status = "open" /\ status' = "open" /\ last'.op = "open")
          => \A k \in Keys : GetResult(k)' = GetResult(k)]_vars

\* C4: for every keydir entry k -> p the segment p.log_gen exists and the bytes
\* [p.pos, p.pos + p.len) of it are exactly one Set record with key k and the
\* value of the most recent successful set(k, _).
C4_KeydirPointsAtCurrentSet ==
    status = "open" =>
        \A k \in DOMAIN keydir :
            /\ keydir[k].log_gen \in DOMAIN files
            /\ cur[k].st = "set"
            /\ \E i \in 1..Len(files[keydir[k].log_gen]) :
                   /\ IterPointer(keydir[k].log_gen, files[keydir[k].log_gen], i)
                          = keydir[k]
                   /\ files[keydir[k].log_gen][i] = SetCmd(k, cur[k].value)

C6_RemoveUnknownKeyChangesNothing ==
    [][(status = "open" /\ last'.op = "remove"
           /\ last'.key \notin DOMAIN keydir)
          => /\ last'.res = "UnknownKeyError"
             /\ UNCHANGED <<files, status, keydir, readers, writer, log_gen,
                            stale_logs_size>>]_vars

C6_Witness ==
    /\ status = "open"
    /\ last.op = "remove" /\ last.res = "UnknownKeyError"
    /\ cur[last.key].st = "removed"
    /\ \E g \in DOMAIN files : files[g] # <<>>

\* C7: right after every compaction of a handle, the first and every later
\* one, the directory holds only the compaction output and the fresh active
\* segment: at most two .log files, every older segment deleted.
C7_TwoLogsAfterCompaction ==
    (status = "open" /\ last.compacted)
        => DOMAIN files = {log_gen - 1, log_gen}

\* C8: whenever set or remove returns an I/O or decode error, from the append
\* or from the compaction it triggered, the keydir is the keydir of before
\* the call.
C8_ErrorLeavesKeydir ==
    [][(status = "open" /\ last'.op \in {"set", "remove"}
           /\ last'.res \in {"IoErr", "SerdeErr"})
          => keydir' = keydir]_vars

RECURSIVE UnreferencedIn(_, _, _)
\* the bytes of the records i.. of segment gen that no keydir entry points at
UnreferencedIn(gen, f, i) ==
    IF i > Len(f) THEN 0
    ELSE (IF \E k \in DOMAIN keydir : keydir[k] = IterPointer(gen, f, i)
          THEN 0 ELSE EncodedLen(f[i]))
         + UnreferencedIn(gen, f, i + 1)

RECURSIVE UnreferencedBytes(_)
\* the same over the segments gens
UnreferencedBytes(gens) ==
    IF gens = {} THEN 0
    ELSE LET g == Min(gens)
         IN  UnreferencedIn(g, files[g], 1) + UnreferencedBytes(gens \ {g})

\* C9: the stale-bytes counter is never less than the bytes of the records in
\* existing segments that no keydir entry references, superseded Set records
\* and Remove records alike.
C9_StaleCoversUnreferenced ==
    status = "open" => stale_logs_size >= UnreferencedBytes(DOMAIN files)

StaleAfterAccounting(key) ==
    stale_logs_size + (IF key \in DOMAIN keydir THEN keydir[key].len ELSE 0)

\* the keys that are live when the compaction of a set/remove step begins
LiveAtCompaction(op, key) ==
    IF op = "set" THEN DOMAIN keydir \cup {key} ELSE DOMAIN keydir \ {key}

\* the value key has when the compaction of a set/remove step begins
ValueAtCompaction(op, key, value, k) ==
    IF op = "set" /\ k = key THEN value ELSE GetResult(k).value

\* C17: when a compaction completes, the compaction segment holds exactly one
\* Set record per key live before it, with that key's current value, and no
\* Remove record; the new active segment is empty; the keydir has the same
\* keys, every pointer into the compaction segment; stale-bytes is 0 (an empty
\* live set gives an empty compaction segment).
C17_CompactionResult ==
    [][(status = "open" /\ last'.op \in {"set", "remove"} /\ last'.compacted)
          => LET live == LiveAtCompaction(last'.op, last'.key)
                 c == log_gen' - 1
             IN  /\ status' = "open"
                 /\ c \in DOMAIN files'
                 /\ Len(files'[c]) = Cardinality(live)
                 /\ DOMAIN keydir' = live
                 /\ \A k \in live :
                        /\ keydir'[k].log_gen = c
                        /\ \E i \in 1..Len(files'[c]) :
                               /\ keydir'[k] = IterPointer(c, files'[c], i)
                               /\ files'[c][i] =
                                      SetCmd(k, ValueAtCompaction(
                                          last'.op, last'.key, last'.value, k))
                 /\ writer' = [log_gen |-> log_gen', log_pos |-> 0]
                 /\ log_gen' \in DOMAIN files'
                 /\ files'[log_gen'] = <<>>
                 /\ stale_logs_size' = 0]_vars

C17_Witness ==
    /\ status = "open"
    /\ last.compacted
    /\ Cardinality(DOMAIN keydir) = 2
    /\ compactions >= 1

\* C18: when the compaction triggered by a set or remove aborts with an error
\* (a read, a file creation or opening, a deletion failed), the readers map,
\* the active writer's segment, the current generation and the stale-bytes
\* counter are those of the moment the compaction began, the keydir too, and
\* every key whose segment had a reader is still readable.
C18_AbortedCompactionRestores ==
    [][(status = "open" /\ last'.op \in {"set", "remove"}
           /\ last'.res \in {"IoErr", "SerdeErr", "UnexpectedCommandType"}
           /\ files' # files)
          => /\ status' = "open"
             /\ readers' = readers
             /\ writer'.log_gen = writer.log_gen
             /\ log_gen' = log_gen
             /\ stale_logs_size' = StaleAfterAccounting(last'.key)
             /\ DOMAIN keydir' = LiveAtCompaction(last'.op, last'.key)
             /\ \A k \in DOMAIN keydir' :
                    keydir'[k].log_gen \in readers
                        => GetResult(k)'.res = "Some"]_vars

\* C19: a set or remove that appended its record runs a compaction (the file
\* of the next generation is created, whether or not the compaction then
\* completes) exactly when stale-bytes after the operation's accounting is
\* strictly greater than 1,048,576, not when it is equal or below; get and
\* open never compact: they create no compaction segment and delete or
\* rewrite no segment.
C19_CompactsExactlyAboveThreshold ==
    [][/\ (status = "open" /\ last'.op \in {"set", "remove"}
             /\ last'.res # "UnknownKeyError")
            => /\ (log_gen + 1 \in DOMAIN files')
                      <=> (StaleAfterAccounting(last'.key) > 1048576)
               /\ last'.compacted => log_gen + 1 \in DOMAIN files'
       /\ last'.op \in {"get", "open"}
            => /\ ~last'.compacted
               /\ \A g \in DOMAIN files :
                      g \in DOMAIN files' /\ files'[g] = files[g]
               /\ last'.op = "get" => files' = files
               /\ last'.op = "open"
                      => DOMAIN files' = DOMAIN files \cup {log_gen'}]_vars

\* a set that left stale-bytes exactly at the threshold and did not compact
C19_Witness ==
    /\ status = "open"
    /\ last.op = "set" /\ last.res = "Ok" /\ ~last.compacted
    /\ stale_logs_size = COMPACTION_THRESHOLD
    /\ Cardinality(DOMAIN files) = 1

\* C20: a remove(k) that returned Ok increases stale-bytes by the length of
\* k's prior pointer plus the byte length of the Remove record it appended
\* (observed on removes that did not go on to compact, which resets the
\* counter); open does the same for every Remove record of a present key it
\* replays.
C20_RemoveCountsItsRecord ==
    [][(status = "open" /\ last'.op = "remove" /\ last'.res = "Ok"
           /\ ~last'.compacted)
          => stale_logs_size' = stale_logs_size + keydir[last'.key].len
                                   + EncodedLen(RemoveCmd(last'.key))]_vars

\* some segment of the directory ends with a truncated record
HasTornTail ==
    \E g \in DOMAIN files :
        files[g] # <<>> /\ files[g][Len(files[g])].type = "Torn"

\* C11: open on a directory in which some segment ends with a truncated
\* trailing record fails with a decode error and returns no store.
C11_OpenFailsOnTornTail ==
    [][(last'.op = "open" /\ HasTornTail)
          => (last'.res = "SerdeErr" /\ status' # "open")]_vars

\* C12: on every connection the responses written are, in order, the
\* responses to the requests decoded on it, each of the variant of its
\* request, and every decoded request has its response before the next one
\* is dispatched: the only request without a response is the one the server
\* is writing the response of.
C12_OneResponsePerRequest ==
    \A c \in 1..Len(conns) :
        /\ conns[c].read - Len(conns[c].out)
               = IF srv.pc = "write" /\ srv.conn = c THEN 1 ELSE 0
        /\ \A i \in 1..Len(conns[c].out) :
               conns[c].out[i].kind = conns[c].inbox[i].kind

\* the server has just taken a step on the connection it serves
ServerStep ==
    \/ srv' # srv
    \/ conns'[srv.conn].read # conns[srv.conn].read
    \/ conns'[srv.conn].st # conns[srv.conn].st

\* C13: when the engine returns an error for a request the response is the
\* error arm of the request's variant with the text of the error, it is
\* written to the connection, and the server goes on reading the same
\* connection; Remove of a missing key gives Remove(err("Key not found")),
\* Get of a missing key gives Get(ok(none)).
C13_ErrorResponse ==
    [][/\ (HasNext /\ NextMsg.kind # "Malformed" /\ ServerStep
             /\ last'.res \notin {"Ok", "Some", "None", "panic"})
            => /\ srv'.pc = "write" /\ srv'.conn = srv.conn
               /\ srv'.resp.kind = NextMsg.kind
               /\ srv'.resp.arm = "err"
               /\ srv'.resp.text = ErrText(last'.res)
               /\ last'.res = "UnknownKeyError"
                      => srv'.resp.text = "Key not found"
       /\ (HasNext /\ NextMsg.kind = "Remove" /\ ServerStep
             /\ NextMsg.key \notin DOMAIN keydir)
            => srv'.resp = ErrResp("Remove", "Key not found")
       /\ (HasNext /\ NextMsg.kind = "Get" /\ ServerStep
             /\ NextMsg.key \notin DOMAIN keydir)
            => srv'.resp = OkResp("Get", "none", NoValue)
       /\ (srv.pc = "write" /\ ServerStep)
            => /\ conns'[srv.conn].out = Append(conns[srv.conn].out, srv.resp)
               /\ conns'[srv.conn].st = "serving"
               /\ srv'.pc = "read" /\ srv'.conn = srv.conn]_vars

\* a request answered after an error response on the same connection
C13_Witness ==
    \E c \in 1..Len(conns) :
        /\ Len(conns[c].out) >= 2
        /\ conns[c].out[1] = ErrResp("Remove", "Key not found")
        /\ conns[c].out[2].arm = "ok"

\* C14: a malformed message ends its connection and nothing else: it gets no
\* response, neither it nor any later message of the connection is
\* dispatched, the server is back in its accept loop and the engine is as the
\* earlier requests left it.
C14_MalformedEndsConnection ==
    [][/\ (HasNext /\ NextMsg.kind = "Malformed" /\ ServerStep)
            => /\ conns'[srv.conn].st = "ended"
               /\ conns'[srv.conn].out = conns[srv.conn].out
               /\ conns'[srv.conn].read = conns[srv.conn].read
               /\ srv'.pc = "accept"
               /\ UNCHANGED <<files, status, keydir, readers, writer,
                              log_gen, stale_logs_size>>
       /\ \A c \in 1..Len(conns) :
            /\ \A i \in 1..conns'[c].read :
                   conns'[c].inbox[i].kind # "Malformed"
            /\ conns[c].st = "ended"
                   => /\ conns'[c].st = "ended"
                      /\ conns'[c].read = conns[c].read
                      /\ conns'[c].out = conns[c].out]_vars

\* a connection ended by a malformed message after a set, a message after
\* it left unread, and the next connection taken up with the key still set
C14_Witness ==
    /\ Len(conns) = 2
    /\ conns[1].st = "ended"
    /\ conns[1].read = 1
    /\ Len(conns[1].inbox) = 3
    /\ conns[1].inbox[2].kind = "Malformed"
    /\ conns[2].st = "serving"
    /\ status = "open" /\ DOMAIN keydir = {"a"}

\* C15: a request is dispatched only on the one connection being served, and
\* only when every connection accepted or queued before it has ended.
C15_OneConnectionAtATime ==
    [][\A c \in 1..Len(conns) :
          conns'[c].read # conns[c].read
              => /\ srv.conn = c /\ conns[c].st = "serving"
                 /\ \A d \in 1..Len(conns) :
                        /\ d # c => conns[d].st # "serving"
                        /\ d < c => conns[d].st = "ended"]_vars

\* a request is being answered on connection 1 while a message of
\* connection 2 waits
C15_Witness ==
    /\ Len(conns) = 2
    /\ srv.pc = "write" /\ srv.conn = 1
    /\ conns[2].st = "queued"
    /\ Len(conns[2].inbox) >= 1

\* C16: a run of either tool with get on a missing key prints
\* `Key not found` and exits with status 0; with rm on a missing key it prints
\* `Key not found` to stdout and exits with status 1.
C16_MissingKeyOutput ==
    (cli.tool # "-" /\ cli.missing /\ cli.cmd \in {"get", "rm"})
        => /\ cli.stdout.text = "Key not found"
           /\ cli.exit = IF cli.cmd = "get" THEN 0 ELSE 1

\* C21: a set(k, v) that returned Ok without compacting raises stale-bytes by
\* the length of k's previous pointer, or not at all when k was absent; the
\* keydir then maps k to the pointer of the record just appended to the
\* writer's segment, and every other entry is as before.
C21_SetFrame ==
    [][(status = "open" /\ last'.op = "set" /\ last'.res = "Ok"
           /\ ~last'.compacted)
          => LET k == last'.key
                 g == writer.log_gen
             IN  /\ stale_logs_size' =
                        stale_logs_size
                            + (IF k \in DOMAIN keydir THEN keydir[k].len ELSE 0)
                 /\ DOMAIN keydir' = DOMAIN keydir \cup {k}
                 /\ \A j \in DOMAIN keydir \ {k} : keydir'[j] = keydir[j]
                 /\ g \in DOMAIN files /\ g \in DOMAIN files'
                 /\ files'[g] = Append(files[g], SetCmd(k, last'.value))
                 /\ keydir'[k] = IterPointer(g, files'[g], Len(files'[g]))]_vars

\* a set that overwrote a key, another key being live, without compacting
C21_Witness ==
    /\ status = "open"
    /\ last.op = "set" /\ last.res = "Ok" /\ ~last.compacted
    /\ stale_logs_size > 0
    /\ Cardinality(DOMAIN keydir) = 2

\* C22: open makes max(existing generations) + 1 the current generation (1 on
\* an empty directory), creates that segment empty, points the writer at it,
\* registers a reader for it and for every segment that existed, and leaves
\* every segment that existed as it was.
C22_OpenGeneration ==
    /\ [](ops = 0 => /\ log_gen = 1
                     /\ files = [g \in {1} |-> <<>>]
                     /\ readers = {1}
                     /\ writer = [log_gen |-> 1, log_pos |-> 0])
    /\ [][(last'.op = "open" /\ status' = "open")
            => /\ DOMAIN files # {}
               /\ log_gen' = Max(DOMAIN files) + 1
               /\ DOMAIN files' = DOMAIN files \cup {log_gen'}
               /\ files'[log_gen'] = <<>>
               /\ writer' = [log_gen |-> log_gen', log_pos |-> 0]
               /\ readers' = DOMAIN files'
               /\ \A g \in DOMAIN files : files'[g] = files[g]]_vars

\* an open of a directory that held several segments, one of them not empty
C22_Witness ==
    /\ status = "open"
    /\ last.op = "open" /\ ops > 0
    /\ Cardinality(DOMAIN files) >= 3
    /\ \E g \in DOMAIN files : g < log_gen - 1 /\ files[g] # <<>>

\* the places <<generation, index>> of the records of key k in the directory
RecordsOf(k) ==
    {p \in UNION {{<<g, i>> : i \in 1..Len(files[g])} : g \in DOMAIN files} :
        files[p[1]][p[2]].key = k}

\* p is not before q in ascending generation order and file order
NotBefore(p, q) == p[1] > q[1] \/ (p[1] = q[1] /\ p[2] >= q[2])

\* C23: the keydir open builds is the replay of all records in ascending
\* generation order and file order: a key is in it exactly when the last of
\* its records in that order is a Set, and it is then mapped to the pointer
\* of that record, so a record of a higher generation overrides one of a
\* lower generation.
C23_OpenReplaysInOrder ==
    [][(last'.op = "open" /\ status' = "open")
          => \A k \in Keys :
                IF RecordsOf(k) = {}
                THEN k \notin DOMAIN keydir'
                ELSE LET p == CHOOSE p \in RecordsOf(k) :
                                  \A q \in RecordsOf(k) : NotBefore(p, q)
                     IN  IF files[p[1]][p[2]].type = "Set"
                         THEN /\ k \in DOMAIN keydir'
                              /\ keydir'[k] =
                                     IterPointer(p[1], files[p[1]], p[2])
                         ELSE k \notin DOMAIN keydir']_vars

\* an open that found records of one key in two generations, the lower one
\* holding another value than the higher one
C23_Witness ==
    /\ status = "open" /\ last.op = "open"
    /\ \E k \in DOMAIN keydir :
           \E g \in DOMAIN files :
               /\ g < keydir[k].log_gen
               /\ \E i \in 1..Len(files[g]) :
                      /\ files[g][i].key = k
                      /\ files[g][i].type = "Set"
                      /\ GetResult(k).res = "Some"
                      /\ files[g][i].value # GetResult(k).value

\* C24: the pointer an append returns is (generation of the writer, position
\* of the writer before the append, bytes written) and the position of the
\* writer advances by the bytes written, for Set and Remove records; the
\* pointers the iteration rebuilds when the directory is opened again are the
\* pointers the appends returned.
C24_PointerOfAppend ==
    [][/\ (status = "open" /\ last'.op = "set" /\ last'.res = "Ok"
             /\ ~last'.compacted)
            => /\ keydir'[last'.key] =
                      LogPointer(writer.log_gen, writer.log_pos,
                                 EncodedLen(SetCmd(last'.key, last'.value)))
               /\ writer' = [writer EXCEPT !.log_pos =
                      @ + EncodedLen(SetCmd(last'.key, last'.value))]
       /\ (status = "open" /\ last'.op = "remove" /\ last'.res = "Ok"
             /\ ~last'.compacted)
            => writer' = [writer EXCEPT !.log_pos =
                      @ + EncodedLen(RemoveCmd(last'.key))]
       /\ (status = "open" /\ last'.op = "open" /\ status' = "open")
            => keydir' = keydir]_vars

\* a directory opened again whose keydir points at a record that was not
\* the first of its segment when it was appended
C24_Witness ==
    /\ status = "open" /\ last.op = "open" /\ ops > 0
    /\ \E k \in DOMAIN keydir : keydir[k].pos > 0

C26_EveryPointerHasReader ==
    /\ status # "panicked"
    /\ \A k \in DOMAIN keydir : keydir[k].log_gen \in readers

\* C27: when the process stops inside a compaction after the compaction
\* segment was flushed, before, between or after the deletions of the old
\* segments, an open of the directory it leaves gives every key the value it
\* had when the compaction began: the key of the set or remove in progress
\* its new value or none, every other key what get returned before.
C27_CrashInCompactionKeepsMapping ==
    [][last'.op = "crash_compact"
          => \A k \in Keys :
                GetIn(OpenStore(files'), k) =
                    IF k # last'.key THEN GetResult(k)
                    ELSE IF last'.res = "set" THEN Some(last'.value)
                    ELSE [res |-> "None", value |-> NoValue]]_vars

RECURSIVE SumLen(_)
\* the bytes the pointers of the keys of S address
SumLen(S) ==
    IF S = {} THEN 0
    ELSE LET k == CHOOSE x \in S : TRUE
         IN  keydir[k].len + SumLen(S \ {k})

====
